---- MODULE Spec2Model ----
(***************************************************************************)
(* CareerVue: the e-mail ingestion pipeline (src/email_watcher.py,         *)
(* class EmailWatcher) and the poller that drives it (src/home_screen.py,  *)
(* class HomeScreen).                                                      *)
(*                                                                         *)
(* Spec      : one client thread runs EmailWatcher.run(last_checked)       *)
(*             cycle after cycle over a fixed mailbox.                     *)
(* SpecNotes : Spec over messages that are all about one application.      *)
(* SpecConc  : two threads run EmailWatcher.run(last_checked) at once.     *)
(* SpecManual: the UI first adds and edits a row (add_new_job, update_job),*)
(*             then one thread runs cycles.                                *)
(* SpecPoller: HomeScreen's worker thread (run_email_watcher) and the      *)
(*             manual refresh of the UI thread.                            *)
(* SpecRestart: SpecPoller and update_config, which stops the watcher and  *)
(*             starts a new one.                                           *)
(* SpecStop  : a thread inside run on HomeScreen's watcher while           *)
(*             update_config stops that watcher.                           *)
(* SpecParse : parse_email applied to one message.                         *)
(* SpecApp   : HomeScreen with its worker, a thread that runs              *)
(*             EmailWatcher.run(last_checked) on HomeScreen's watcher, and *)
(*             delete_job.                                                 *)
(***************************************************************************)
EXTENDS Integers, Sequences, FiniteSets, TLC

\* ---------------------------------------------------------------- bounds
MaxMail == 2
MaxCycles == 2
\* cycles per thread where two threads run, and where the UI has edited the store
ConcCycles == 1
ConcMail == 1
ManualCycles == 1
\* worker threads HomeScreen starts in all, and cycles a thread runs beside them
MaxWorkers == 2
AppCycles == 2
\* parts of a multipart message, after its root
MaxParts == 2

\* ------------------------------------------------------ program constants
\* @backoff.on_exception(..., imaplib.IMAP4.error, max_tries=3) on connect
max_connect_tries == 3
\* @backoff.on_exception(..., sqlite3.Error, max_tries=3) on update_database
max_db_tries == 3
\* time.sleep(300) / time.sleep(60) in run_email_watcher
normal_interval == 300
recovery_interval == 60

\* ------------------------------------------------------------ SQL values
\* A TEXT column holds a text (a sequence of pieces) or NULL.
NULL == [null |-> TRUE, s |-> <<>>]
Text(s) == [null |-> FALSE, s |-> s]
\* SQL's || : NULL if either operand is NULL, else the concatenation.
SqlConcat(a, b) == IF a.null \/ b.null THEN NULL ELSE Text(a.s \o b.s)
\* the literal '\n\n' of the two UPDATE statements
Separator == Text(<<"\n\n">>)

\* --------------------------------------------------------------- mailbox
\* A message of the mailbox: arrived is the day the server files it under
\* (what SINCE compares), date is the day of its Date header (what
\* strftime("%Y-%m-%d") keeps), decodable says whether parse_email succeeds,
\* and the remaining fields are what the classifier answers for its content
\* when it answers well-formed JSON (job = job_related).
Msg(c, p, st, d, n, a) ==
    [company |-> c, position |-> p, status |-> st, date |-> d, note |-> n,
     arrived |-> a, job |-> TRUE, decodable |-> TRUE]
NotJob(a, dec) ==
    [company |-> "", position |-> "", status |-> "", date |-> a, note |-> NULL,
     arrived |-> a, job |-> FALSE, decodable |-> dec]
Messages ==
    { Msg("Acme", "Backend", "Applied", 2, Text(<<"n1">>), 2),
      Msg("Acme", "Backend", "Interview", 1, Text(<<"n2">>), 3),
      Msg("Acme", "Frontend", "Applied", 3, Text(<<>>), 1),
      Msg("Initech", "Backend", "Offer", 3, NULL, 3),
      NotJob(2, TRUE),
      NotJob(3, FALSE) }
Checkpoints == {1, 2}
\* the mailboxes of at most len messages, no message twice
Mailboxes(len) ==
    UNION { { box \in [1..n -> Messages] :
                \A i \in 1..n : \A j \in 1..n : box[i] = box[j] => i = j } : n \in 0..len }

\* three messages about one application; for the second the classifier
\* answers "email_content": null
NoteMessages ==
    { Msg("Acme", "Backend", "Applied", 1, Text(<<"n1">>), 1),
      Msg("Acme", "Backend", "Interview", 2, NULL, 2),
      Msg("Acme", "Backend", "Offer", 3, Text(<<"n3">>), 3) }
NoteMailboxes(len) ==
    UNION { { box \in [1..n -> NoteMessages] :
                \A i \in 1..n : \A j \in 1..n : box[i] = box[j] => i = j } : n \in 0..len }

Threads == {"t1", "t2"}
\* the threads start_email_watcher can start; NoThread: email_watcher_thread is None
Workers == 1..MaxWorkers
NoThread == 0
\* update_sync_time: FileNotFoundError, there is no last_checked.json
NoFile == 0

VARIABLES
    mailbox,          \* the mailbox: a sequence of messages
    jobs,             \* table jobs of job_applications.db: a set of rows
    nextId,           \* the rowid the next INSERT gets
    last_checked_file,\* content of last_checked.json (NoFile: no such file)
    now,              \* the wall clock
    mail,             \* EmailWatcher.mail: "None", "open" or "closed"
    stop_flag,        \* EmailWatcher.stop_flag
    pc,               \* per thread: where it is in EmailWatcher.run
    lc,               \* per thread: the last_checked argument of run
    todo,             \* per thread: message numbers the generator still has to fetch
    cur,              \* per thread: the message number being processed
    job_data,         \* per thread: the dict interpret_email returned
    existing_job,     \* per thread: what cursor.fetchone() returned
    tries,            \* per thread: attempts of update_database so far
    cycles,           \* per thread: cycles started
    conn_log,         \* per thread: the last connect(): handshakes planned, made, result
    outcome,          \* per thread: what happened to the message last handled
    cycle,            \* per thread: the running or last cycle, and the one before it
    email_watcher,    \* HomeScreen.email_watcher: "None" or "watcher"
    email_watcher_thread, \* HomeScreen.email_watcher_thread: a worker, or NoThread
    worker,           \* per worker thread: where it is in run_email_watcher
    ui,               \* the UI thread: "idle", or where it is in update_config
    callback_error,   \* the exception that left the last UI callback ("none": it returned)
    status_indicator, \* colour of HomeScreen.status_indicator
    slept,            \* seconds of the worker's last time.sleep
    message_box,      \* the last CTkMessagebox shown
    app,              \* the process: "running", or "crashed" by an uncaught exception
    email_message,    \* the message parse_email is called on
    email_data        \* what parse_email returned

parseVars == <<email_message, email_data>>

pollerVars == <<email_watcher, email_watcher_thread, worker, ui, callback_error,
                status_indicator, slept, message_box, app, parseVars>>

vars == <<mailbox, jobs, nextId, last_checked_file, now, mail, stop_flag, pc, lc,
          todo, cur, job_data, existing_job, tries, cycles, conn_log, outcome, cycle,
          email_watcher, email_watcher_thread, worker, ui, callback_error,
          status_indicator, slept, message_box, app, email_message, email_data>>

\* ------------------------------------------------- connect (with backoff)
\* What one handshake (IMAP4_SSL(...), login, select) can do:
\*   "ok"         all three calls succeed
\*   "imap_error" the connection is made and login raises imaplib.IMAP4.error
\*   "os_error"   IMAP4_SSL(...) raises an OSError (unreachable host, TLS)
Handshakes == {"ok", "imap_error", "os_error"}

\* The body of connect() on one handshake outcome, self.mail being m:
\* what it returns or raises, and the new self.mail.
ConnectBody(h, m) ==
    CASE h = "ok"         -> [ret |-> "True",    mail |-> "open"]
      [] h = "imap_error" -> [ret |-> "False",   mail |-> "open"]
      [] h = "os_error"   -> [ret |-> "OSError", mail |-> m]

\* backoff.on_exception(backoff.expo, imaplib.IMAP4.error, max_tries=3):
\* call the body; when it RAISES IMAP4.error and tries are left, call it
\* again; anything it returns, and any other exception, goes to the caller.
\* hs[n] is what the n-th handshake would do.
RECURSIVE ConnectFrom(_, _, _)
ConnectFrom(hs, n, m) ==
    LET b == ConnectBody(hs[n], m) IN
    IF b.ret = "IMAP4.error" /\ n < max_connect_tries
    THEN ConnectFrom(hs, n + 1, b.mail)
    ELSE [ret |-> b.ret, mail |-> b.mail, attempts |-> n]

connect(hs, m) == ConnectFrom(hs, 1, m)

HandshakePlans == [1..max_connect_tries -> Handshakes]
NoConnect == [plan |-> <<>>, attempts |-> 0, ret |-> "none"]

\* ------------------------------------------------------------ parse_email
\* A part as walk() yields it: ctype is what get_content_type() gives, text
\* its payload, decodes whether get_payload/decode succeed on it.
ContentTypes == {"text/plain", "text/html", "multipart/alternative"}
Parts == [ctype : ContentTypes, text : {"a", "b"}, decodes : BOOLEAN]
\* A message: date_ok says whether parsedate_to_datetime accepts its Date
\* header; a multipart message has the parts walk() yields after the root, a
\* message that is not multipart has its own payload.
EmailMessages ==
    [multipart : {TRUE}, date_ok : BOOLEAN, own : {[ctype |-> "multipart/mixed", text |-> "", decodes |-> FALSE]},
     parts : UNION { [1..n -> Parts] : n \in 0..MaxParts }]
    \cup
    [multipart : {FALSE}, date_ok : BOOLEAN,
     own : { q \in Parts : q.ctype # "multipart/alternative" }, parts : {<<>>}]
NoMessage == [multipart |-> FALSE, date_ok |-> FALSE,
              own |-> [ctype |-> "text/plain", text |-> "", decodes |-> FALSE], parts |-> <<>>]
NotParsed == [ret |-> "not_called", body |-> ""]

\* decode_payload: the decoded payload, "" when decoding raises
decode_payload(part) == IF part.decodes THEN part.text ELSE ""

\* email_message.walk(): the message itself, then its parts in document order
walk(m) == <<m.own>> \o m.parts

RECURSIVE WalkBody_NoBreak(_, _)
\* (mutant) the loop has no break: the last text/plain part wins
WalkBody_NoBreak(ps, i) ==
    IF i > Len(ps) THEN ""
    ELSE IF ps[i].ctype = "text/plain" /\ \A j \in (i+1)..Len(ps) : ps[j].ctype # "text/plain"
         THEN decode_payload(ps[i])
         ELSE WalkBody_NoBreak(ps, i + 1)

RECURSIVE WalkBody(_, _)
\* for part in walk(): if part.get_content_type() == "text/plain":
\* body = decode_payload(part); break   (body is "" before the loop)
WalkBody(ps, i) ==
    IF i > Len(ps) THEN ""
    ELSE IF ps[i].ctype = "text/plain" THEN decode_payload(ps[i])
    ELSE WalkBody(ps, i + 1)

\* parse_email: any exception (here: of the Date header) gives None
parse_email(m) ==
    IF ~m.date_ok THEN [ret |-> "None", body |-> ""]
    ELSE [ret |-> "dict",
          body |-> IF m.multipart THEN WalkBody(walk(m), 1) ELSE decode_payload(m.own)]

\* ------------------------------------------------------- fetch_new_emails
RECURSIVE SinceFrom(_, _, _)
\* the numbers i..Len(box) of the messages filed on or after day d, in order
SinceFrom(box, d, i) ==
    IF i > Len(box) THEN <<>>
    ELSE IF box[i].arrived >= d THEN <<i>> \o SinceFrom(box, d, i + 1)
    ELSE SinceFrom(box, d, i + 1)

\* mail.search(None, '(SINCE "<date>")'): day-granular, inclusive
SearchSince(box, d) == SinceFrom(box, d, 1)

\* -------------------------------------------------------- interpret_email
\* what analyze_email + json.loads + the field reads can do on one message
ClassifierOutcomes == {"ok", "bad_json", "bad_shape", "raises"}

\* the dict interpret_email returns for a job-related message
interpret_email(m) ==
    [company |-> m.company, position |-> m.position, status |-> m.status,
     date |-> m.date, notes |-> m.note]

\* What a call of interpret_email on message m gives its caller when the
\* classifier does c: "dict" (the dict above), "None", or the exception that
\* leaves it. job_related = false and a JSONDecodeError both end in
\* "return None" (the second after logging.error).
interpret_result(c, m) ==
    CASE c = "ok" /\ m.job    -> "dict"
      [] c = "ok" /\ ~m.job   -> "None"
      [] c = "bad_json"       -> "None"
      [] c = "bad_shape"      -> "KeyError"
      [] OTHER                -> "Exception"

\* process_email on what interpret_email returned: a dict goes to
\* update_database, for None it logs the line below
process_email_log(ret) ==
    IF ret = "None" THEN "not interpreted as job-related" ELSE "none"

NoJobData == [company |-> "", position |-> "", status |-> "", date |-> 0, notes |-> NULL]

\* -------------------------------------------------------- update_database
\* (mutant) the lookup also compares the status
Matches_WithStatus(row, jd) ==
    row.company = jd.company /\ row.position = jd.position /\ row.status = jd.status

\* WHERE company = ? AND position = ?
Matches(row, jd) == row.company = jd.company /\ row.position = jd.position

\* the rows the SELECT yields; fetchone() takes one of them, or None
SelectRows(tbl, jd) == { [id |-> r.id, status |-> r.status] : r \in { x \in tbl : Matches(x, jd) } }

\* cursor.fetchone(): {} for None, else one row of the result (the SELECT has
\* no ORDER BY, so which one is not fixed)
FetchOne(rows) == IF rows = {} THEN {{}} ELSE { {x} : x \in rows }

\* (mutant) the UPDATE of a changed status sets application_date as well
UpdateStatus_Redates(row, jd) ==
    [row EXCEPT !.status = jd.status, !.last_updated = jd.date,
                !.application_date = jd.date,
                !.notes = SqlConcat(SqlConcat(@, Separator), jd.notes),
                !.updated = 1]

\* UPDATE ... SET status, last_updated, notes = notes || '\n\n' || ?, updated = 1
UpdateStatus(row, jd) ==
    [row EXCEPT !.status = jd.status, !.last_updated = jd.date,
                !.notes = SqlConcat(SqlConcat(@, Separator), jd.notes),
                !.updated = 1]

\* (mutant) the branch for an unchanged status marks the row too
UpdateSame_Marks(row, jd) ==
    [row EXCEPT !.last_updated = jd.date,
                !.notes = SqlConcat(SqlConcat(@, Separator), jd.notes),
                !.updated = 1]

\* UPDATE ... SET last_updated, notes = notes || '\n\n' || ?
UpdateSame(row, jd) ==
    [row EXCEPT !.last_updated = jd.date,
                !.notes = SqlConcat(SqlConcat(@, Separator), jd.notes)]

\* (mutant) the INSERT binds position and status in the wrong order
InsertRow_Swapped(id, jd) ==
    [id |-> id, company |-> jd.company, position |-> jd.status, status |-> jd.position,
     application_date |-> jd.date, last_updated |-> jd.date, notes |-> jd.notes,
     updated |-> 1]

\* INSERT INTO jobs (...) VALUES (?, ?, ?, ?, ?, ?, 1)
InsertRow(id, jd) ==
    [id |-> id, company |-> jd.company, position |-> jd.position, status |-> jd.status,
     application_date |-> jd.date, last_updated |-> jd.date, notes |-> jd.notes,
     updated |-> 1]

\* (mutant) the existence test is lost: every verdict is inserted
WriteJobs_AlwaysInsert(tbl, ex, jd, id) == tbl \cup { InsertRow(id, jd) }

\* The write of update_database: ex is what fetchone() returned ({} for None).
\* The branch is decided on the status that was READ; the UPDATE goes by id.
WriteJobs(tbl, ex, jd, id) ==
    IF ex # {}
    THEN LET e == CHOOSE x \in ex : TRUE IN
         IF jd.status # e.status
         THEN { IF r.id = e.id THEN UpdateStatus(r, jd) ELSE r : r \in tbl }
         ELSE { IF r.id = e.id THEN UpdateSame(r, jd) ELSE r : r \in tbl }
    ELSE tbl \cup { InsertRow(id, jd) }

\* ------------------------------------------------------------------ Init
NoCycle == [lc |-> 0, start |-> 0, clean |-> TRUE, complete |-> FALSE,
            at_start |-> {}, prev |-> {}, result |-> "none"]

InitRun(boxes) ==
    /\ mailbox \in boxes
    /\ jobs = {}
    /\ nextId = 1
    /\ last_checked_file = NoFile
    /\ now = 1
    /\ mail = "None"
    /\ stop_flag = FALSE
    /\ pc = [t \in Threads |-> "idle"]
    /\ lc = [t \in Threads |-> 0]
    /\ todo = [t \in Threads |-> <<>>]
    /\ cur = [t \in Threads |-> 0]
    /\ job_data = [t \in Threads |-> NoJobData]
    /\ existing_job = [t \in Threads |-> {}]
    /\ tries = [t \in Threads |-> 0]
    /\ cycles = [t \in Threads |-> 0]
    /\ conn_log = [t \in Threads |-> NoConnect]
    /\ outcome = [t \in Threads |-> "none"]
    /\ cycle = [t \in Threads |-> NoCycle]
    /\ email_watcher = "None"
    /\ email_watcher_thread = NoThread
    /\ worker = [w \in Workers |-> "not_started"]
    /\ ui = "idle"
    /\ callback_error = "none"
    /\ status_indicator = "red"
    /\ slept = 0
    /\ message_box = "none"
    /\ app = "running"

InitWith(boxes) ==
    /\ InitRun(boxes)
    /\ email_message = NoMessage
    /\ email_data = NotParsed

Init == InitWith(Mailboxes(MaxMail))

\* ------------------------------------------------------ EmailWatcher.run
\* A client calls run(d); n bounds the cycles a thread runs.
RunCall(t, n) ==
    /\ pc[t] = "idle"
    /\ cycles[t] < n
    /\ \E d \in Checkpoints :
        /\ lc' = [lc EXCEPT ![t] = d]
        /\ cycle' = [cycle EXCEPT ![t] =
              [lc |-> d, start |-> now + 1, clean |-> TRUE, complete |-> FALSE,
               at_start |-> jobs,
               prev |-> IF cycles[t] = 0 THEN {}
                        ELSE {[lc |-> @.lc, clean |-> @.clean /\ @.complete]},
               result |-> "running"]]
    /\ now' = now + 1
    /\ cycles' = [cycles EXCEPT ![t] = @ + 1]
    /\ pc' = [pc EXCEPT ![t] = "connect"]
    /\ outcome' = [outcome EXCEPT ![t] = "none"]
    /\ UNCHANGED pollerVars
    /\ UNCHANGED <<mailbox, jobs, nextId, last_checked_file, mail, stop_flag, todo,
                   cur, job_data, existing_job, tries, conn_log>>

\* if self.connect(): True goes on to fetch; False skips the body; an
\* exception is caught by "except Exception". All three end in finally.
Connect(t) ==
    /\ pc[t] = "connect"
    /\ \E hs \in HandshakePlans :
        LET r == connect(hs, mail) IN
        /\ mail' = r.mail
        /\ conn_log' = [conn_log EXCEPT ![t] =
              [plan |-> hs, attempts |-> r.attempts, ret |-> r.ret]]
        /\ pc' = [pc EXCEPT ![t] = IF r.ret = "True" THEN "list" ELSE "finally"]
        /\ cycle' = [cycle EXCEPT ![t].clean = (r.ret = "True")]
    /\ UNCHANGED pollerVars
    /\ UNCHANGED <<mailbox, jobs, nextId, last_checked_file, now, stop_flag, lc, todo,
                   cur, job_data, existing_job, tries, cycles, outcome>>

\* fetch_new_emails up to the for loop: select and search. An error of
\* either is caught inside the generator, which then yields nothing.
ListSince(t) ==
    /\ pc[t] = "list"
    /\ \E ok \in BOOLEAN :
        /\ todo' = [todo EXCEPT ![t] = IF ok THEN SearchSince(mailbox, lc[t]) ELSE <<>>]
        /\ cycle' = [cycle EXCEPT ![t].clean = @ /\ ok]
    /\ pc' = [pc EXCEPT ![t] = "loop"]
    /\ conn_log' = [conn_log EXCEPT ![t] = NoConnect]
    /\ UNCHANGED pollerVars
    /\ UNCHANGED <<mailbox, jobs, nextId, last_checked_file, now, mail, stop_flag, lc,
                   cur, job_data, existing_job, tries, cycles, outcome>>

\* (mutant) the loop does not look at stop_flag
StopTest_Never(flag) == FALSE

\* "if self.stop_flag: break", first statement of the loop body
StopTest(flag) == flag

\* One turn of "for email_id, email_message in self.fetch_new_emails(...)":
\* the generator fetches the next number; a fetch error is logged and the
\* generator goes on; a fetched message is yielded, stop_flag is tested, and
\* the message goes to process_email. With nothing left the loop ends.
FetchNext(t) ==
    /\ pc[t] = "loop"
    /\ \/ /\ todo[t] = <<>>
          /\ pc' = [pc EXCEPT ![t] = "finally"]
          /\ cycle' = [cycle EXCEPT ![t].complete = TRUE]
          /\ UNCHANGED <<todo, cur, outcome>>
       \/ /\ todo[t] # <<>>
          /\ todo' = [todo EXCEPT ![t] = Tail(@)]
          /\ \/ /\ outcome' = [outcome EXCEPT ![t] = "fetch_error"]
                /\ cycle' = [cycle EXCEPT ![t].clean = FALSE]
                /\ UNCHANGED <<pc, cur>>
             \/ /\ cur' = [cur EXCEPT ![t] = Head(todo[t])]
                /\ IF StopTest(stop_flag)
                   THEN /\ pc' = [pc EXCEPT ![t] = "finally"]
                        /\ outcome' = [outcome EXCEPT ![t] = "stopped"]
                        /\ cycle' = [cycle EXCEPT ![t].clean = FALSE]
                   ELSE /\ pc' = [pc EXCEPT ![t] = "process"]
                        /\ outcome' = [outcome EXCEPT ![t] = "none"]
                        /\ UNCHANGED cycle
    /\ UNCHANGED pollerVars
    /\ UNCHANGED <<mailbox, jobs, nextId, last_checked_file, now, mail, stop_flag, lc,
                   job_data, existing_job, tries, cycles, conn_log>>

\* process_email up to the call of update_database: parse_email, then
\* interpret_email. parse_email returns None on any error (warning, next
\* message). interpret_email returns None for job_related = false and for a
\* JSONDecodeError; every other exception (a KeyError or TypeError on a
\* response of another shape, an exception of analyze_email) is not caught
\* here and reaches "except Exception" of run, which ends the loop.
ProcessEmail(t) ==
    /\ pc[t] = "process"
    /\ LET m == mailbox[cur[t]] IN
       IF ~m.decodable
       THEN /\ outcome' = [outcome EXCEPT ![t] = "decode_error"]
            /\ pc' = [pc EXCEPT ![t] = "loop"]
            /\ UNCHANGED <<job_data, tries, cycle>>
       ELSE \E c \in ClassifierOutcomes :
            LET ret == interpret_result(c, m) IN
            CASE ret = "dict" ->
                    /\ job_data' = [job_data EXCEPT ![t] = interpret_email(m)]
                    /\ tries' = [tries EXCEPT ![t] = 1]
                    /\ pc' = [pc EXCEPT ![t] = "db_select"]
                    /\ UNCHANGED <<outcome, cycle>>
              [] ret = "None" ->
                    /\ outcome' = [outcome EXCEPT ![t] = IF c = "bad_json" THEN "json_error"
                                                         ELSE "not_job_related"]
                    /\ pc' = [pc EXCEPT ![t] = "loop"]
                    /\ cycle' = [cycle EXCEPT ![t].clean = @ /\ c # "bad_json"]
                    /\ UNCHANGED <<job_data, tries>>
              [] OTHER ->
                    /\ outcome' = [outcome EXCEPT ![t] = IF ret = "KeyError"
                                      THEN "classifier_shape_error"
                                      ELSE "classifier_exception"]
                    /\ pc' = [pc EXCEPT ![t] = "finally"]
                    /\ cycle' = [cycle EXCEPT ![t].clean = FALSE]
                    /\ UNCHANGED <<job_data, tries>>
    /\ UNCHANGED pollerVars
    /\ UNCHANGED <<mailbox, jobs, nextId, last_checked_file, now, mail, stop_flag, lc,
                   todo, cur, existing_job, cycles, conn_log>>

\* update_database: connect, SELECT, fetchone. The SELECT runs outside any
\* transaction (sqlite3 opens one only before INSERT/UPDATE/DELETE).
DbSelect(t) ==
    /\ pc[t] = "db_select"
    /\ \E ex \in FetchOne(SelectRows(jobs, job_data[t])) :
          existing_job' = [existing_job EXCEPT ![t] = ex]
    /\ pc' = [pc EXCEPT ![t] = "db_write"]
    /\ UNCHANGED pollerVars
    /\ UNCHANGED <<mailbox, jobs, nextId, last_checked_file, now, mail, stop_flag, lc,
                   todo, cur, job_data, tries, cycles, conn_log, outcome, cycle>>

\* update_database: the UPDATE or INSERT and the commit.
DbWrite(t) ==
    /\ pc[t] = "db_write"
    /\ jobs' = WriteJobs(jobs, existing_job[t], job_data[t], nextId)
    /\ nextId' = IF existing_job[t] = {} THEN nextId + 1 ELSE nextId
    /\ outcome' = [outcome EXCEPT ![t] = "merged"]
    /\ pc' = [pc EXCEPT ![t] = "loop"]
    /\ UNCHANGED pollerVars
    /\ UNCHANGED <<mailbox, last_checked_file, now, mail, stop_flag, lc, todo, cur,
                   job_data, existing_job, tries, cycles, conn_log, cycle>>

\* (mutant) backoff allows one more try
Retries_OneMore(at_connect, n) == ~at_connect /\ n <= max_db_tries

\* backoff.on_exception(backoff.expo, sqlite3.Error, max_tries=3): after the
\* n-th call has raised, update_database is called again if what it raised is
\* a sqlite3.Error (not the UnboundLocalError of a failed sqlite3.connect)
\* and fewer than max_tries calls were made
Retries(at_connect, n) == ~at_connect /\ n < max_db_tries

\* update_database: a statement or the commit raises sqlite3.Error. The
\* handler rolls back and re-raises; backoff calls update_database again
\* while tries are left, and then lets the error through to run. When it is
\* sqlite3.connect that raises, conn is not bound: "if conn" in the handler
\* raises UnboundLocalError, which backoff does not retry.
DbError(t) ==
    /\ pc[t] \in {"db_select", "db_write"}
    /\ \E at_connect \in {FALSE, pc[t] = "db_select"} :
       IF Retries(at_connect, tries[t])
       THEN /\ tries' = [tries EXCEPT ![t] = @ + 1]
            /\ pc' = [pc EXCEPT ![t] = "db_select"]
            /\ UNCHANGED <<outcome, cycle>>
       ELSE /\ pc' = [pc EXCEPT ![t] = "finally"]
            /\ outcome' = [outcome EXCEPT ![t] = "store_error"]
            /\ cycle' = [cycle EXCEPT ![t].clean = FALSE]
            /\ UNCHANGED tries
    /\ existing_job' = [existing_job EXCEPT ![t] = {}]
    /\ UNCHANGED pollerVars
    /\ UNCHANGED <<mailbox, jobs, nextId, last_checked_file, now, mail, stop_flag, lc,
                   todo, cur, job_data, cycles, conn_log>>

\* finally: if self.mail: logout (an error of logout is logged). Every
\* exception of the body was caught by one of the except clauses: run returns
\* (None), it never raises.
Finally(t) ==
    /\ pc[t] = "finally"
    /\ mail' = IF mail = "None" THEN "None" ELSE "closed"
    /\ pc' = [pc EXCEPT ![t] = "idle"]
    /\ todo' = [todo EXCEPT ![t] = <<>>]
    /\ cur' = [cur EXCEPT ![t] = 0]
    /\ job_data' = [job_data EXCEPT ![t] = NoJobData]
    /\ existing_job' = [existing_job EXCEPT ![t] = {}]
    /\ tries' = [tries EXCEPT ![t] = 0]
    /\ conn_log' = [conn_log EXCEPT ![t] = NoConnect]
    /\ cycle' = [cycle EXCEPT ![t].result = "returned"]
    /\ UNCHANGED pollerVars
    /\ UNCHANGED <<mailbox, jobs, nextId, last_checked_file, now, stop_flag, lc,
                   cycles, outcome>>

Next ==
    \/ RunCall("t1", MaxCycles)
    \/ Connect("t1")
    \/ ListSince("t1")
    \/ FetchNext("t1")
    \/ ProcessEmail("t1")
    \/ DbSelect("t1")
    \/ DbWrite("t1")
    \/ DbError("t1")
    \/ Finally("t1")

Spec == Init /\ [][Next]_vars

\* the same pipeline over mailboxes of messages about one application
InitNotes == InitWith(NoteMailboxes(MaxMail))

SpecNotes == InitNotes /\ [][Next]_vars

\* ------------------------------------------------- two concurrent cycles
NextConc ==
    \E t \in Threads :
        \/ RunCall(t, ConcCycles)
        \/ Connect(t)
        \/ ListSince(t)
        \/ FetchNext(t)
        \/ ProcessEmail(t)
        \/ DbSelect(t)
        \/ DbWrite(t)
        \/ DbError(t)
        \/ Finally(t)

InitConc == InitWith(Mailboxes(ConcMail))

SpecConc == InitConc /\ [][NextConc]_vars

\* -------------------------------------------- the UI's edits of the store
\* what the user types into a row's company and position entries and picks
\* in its status menu
EditValues ==
    [company |-> {"Acme"}, position |-> {"Backend"}, status |-> {"Applied", "Interview"}]
EditFields == {"company", "position", "status"}
\* the value of column updated in a row whose INSERT does not name it
UpdatedDefault == 0

\* add_new_job: INSERT ("New Company", "New Position", "Applied", today, today, "")
add_new_job ==
    /\ pc["t1"] = "idle" /\ cycles["t1"] = 0
    /\ jobs = {}
    /\ jobs' = jobs \cup
          { [id |-> nextId, company |-> "New Company", position |-> "New Position",
             status |-> "Applied", application_date |-> now, last_updated |-> now,
             notes |-> Text(<<>>), updated |-> UpdatedDefault] }
    /\ nextId' = nextId + 1
    /\ UNCHANGED pollerVars
    /\ UNCHANGED <<mailbox, last_checked_file, now, mail, stop_flag, pc, lc, todo, cur,
                   job_data, existing_job, tries, cycles, conn_log, outcome, cycle>>

\* update_job(job_id, field, value): UPDATE jobs SET field = ?, last_updated = today
SetField(row, f, v) ==
    CASE f = "company"  -> [row EXCEPT !.company = v, !.last_updated = now]
      [] f = "position" -> [row EXCEPT !.position = v, !.last_updated = now]
      [] f = "status"   -> [row EXCEPT !.status = v, !.last_updated = now]

update_job ==
    /\ pc["t1"] = "idle" /\ cycles["t1"] = 0
    /\ \E r \in jobs : \E f \in EditFields : \E v \in EditValues[f] :
          /\ SetField(r, f, v) # r
          /\ jobs' = (jobs \ {r}) \cup { SetField(r, f, v) }
    /\ UNCHANGED pollerVars
    /\ UNCHANGED <<mailbox, nextId, last_checked_file, now, mail, stop_flag, pc, lc, todo,
                   cur, job_data, existing_job, tries, cycles, conn_log, outcome, cycle>>

NextManual ==
    \/ add_new_job
    \/ update_job
    \/ RunCall("t1", ManualCycles)
    \/ Connect("t1")
    \/ ListSince("t1")
    \/ FetchNext("t1")
    \/ ProcessEmail("t1")
    \/ DbSelect("t1")
    \/ DbWrite("t1")
    \/ DbError("t1")
    \/ Finally("t1")

SpecManual == Init /\ [][NextManual]_vars

\* ------------------------------------------------------------- HomeScreen
\* what run_email_watcher, start_email_watcher and update_config leave alone
runVars == <<mailbox, jobs, nextId, last_checked_file, now, pc, lc, todo, cur,
             job_data, existing_job, tries, cycles, conn_log, outcome, cycle, parseVars>>

\* update_status_indicator on the result r of its connect() (ret = "none":
\* there is no watcher, connect is not called): the colour it sets.
IndicatorColour(r) == IF r.ret = "True" THEN "green" ELSE "red"

\* the threads start_email_watcher has started
Started == { w \in Workers : worker[w] # "not_started" }

\* start_email_watcher, called by __init__ (ui = "idle", nothing started yet)
\* and by update_config (ui = "start"), with a complete configuration: make
\* the watcher, test the connection, start a thread if it is made, update the
\* indicator (a second connect()). An exception of either connect() leaves
\* start_email_watcher and its caller: __init__, which ends the program, or
\* the callback that called update_config.
start_email_watcher ==
    /\ app = "running"
    /\ \/ ui = "start"
       \/ ui = "idle" /\ email_watcher = "None" /\ Started = {}
    /\ email_watcher' = "watcher"
    /\ stop_flag' = FALSE
    /\ \E hs1 \in HandshakePlans : \E hs2 \in HandshakePlans :
          LET r1 == connect(hs1, "None")
              r2 == connect(hs2, r1.mail)
              n == Cardinality(Started) + 1 IN
          /\ mail' = IF r1.ret = "OSError" THEN r1.mail ELSE r2.mail
          /\ IF r1.ret = "True"
             THEN /\ worker' = [worker EXCEPT ![n] = "test"]
                  /\ email_watcher_thread' = n
             ELSE UNCHANGED <<worker, email_watcher_thread>>
          /\ IF r1.ret = "OSError" \/ r2.ret = "OSError"
             THEN /\ IF ui = "idle"
                     THEN app' = "crashed" /\ UNCHANGED callback_error
                     ELSE callback_error' = "OSError" /\ UNCHANGED app
                  /\ ui' = "idle"
                  /\ UNCHANGED <<status_indicator, message_box>>
             ELSE /\ status_indicator' = IndicatorColour(r2)
                  /\ message_box' = IF r1.ret = "True" THEN message_box
                                    ELSE "Failed to connect to email server"
                  /\ ui' = IF ui = "start" THEN "indicator" ELSE "idle"
                  /\ UNCHANGED <<app, callback_error>>
    /\ UNCHANGED runVars
    /\ UNCHANGED slept

\* Thread.is_alive(): the worker is a daemon thread, it runs while the
\* process does
WorkerAlive(w) ==
    /\ app = "running"
    /\ worker[w] \in {"test", "call", "except_TypeError", "except_AttributeError", "finally"}

\* run_email_watcher: while not getattr(self.email_watcher, 'stop_flag', False)
\* self.email_watcher is read anew at every test: it is the watcher HomeScreen
\* has now (None has no stop_flag: the default False).
WorkerTest(w) ==
    /\ app = "running"
    /\ worker[w] = "test"
    /\ worker' = [worker EXCEPT ![w] =
                    IF email_watcher # "None" /\ stop_flag THEN "exited" ELSE "call"]
    /\ UNCHANGED runVars
    /\ UNCHANGED <<mail, stop_flag, email_watcher, email_watcher_thread, ui, callback_error,
                   status_indicator, slept, message_box, app>>

\* run_email_watcher: self.email_watcher.run(). run is defined as
\* run(self, last_checked) and is called without an argument: the call raises
\* TypeError before the body of run is entered (AttributeError when
\* email_watcher is None). The except clause takes it; update_sync_time and
\* time.sleep(300) after the call are never reached.
WorkerCallRun(w) ==
    /\ app = "running"
    /\ worker[w] = "call"
    /\ worker' = [worker EXCEPT ![w] = IF email_watcher = "None" THEN "except_AttributeError"
                                       ELSE "except_TypeError"]
    /\ UNCHANGED runVars
    /\ UNCHANGED <<mail, stop_flag, email_watcher, email_watcher_thread, ui, callback_error,
                   status_indicator, slept, message_box, app>>

\* run_email_watcher: the time.sleep of one turn of the loop: 300 s after a
\* call of run that returned, 60 s in the handler of one that raised
IntervalAfter(result) == IF result = "raised" THEN recovery_interval ELSE normal_interval

\* run_email_watcher: except Exception: print, time.sleep(60)
WorkerSleep(w) ==
    /\ app = "running"
    /\ worker[w] \in {"except_TypeError", "except_AttributeError"}
    /\ slept' = IntervalAfter("raised")
    /\ worker' = [worker EXCEPT ![w] = "finally"]
    /\ UNCHANGED runVars
    /\ UNCHANGED <<mail, stop_flag, email_watcher, email_watcher_thread, ui, callback_error,
                   status_indicator, message_box, app>>

\* run_email_watcher: finally: self.update_status_indicator(), which calls
\* connect(). An exception of connect() is raised inside the finally clause:
\* nothing catches it and the thread ends.
WorkerFinally(w) ==
    /\ app = "running"
    /\ worker[w] = "finally"
    /\ IF email_watcher = "None"
       THEN /\ status_indicator' = "red"
            /\ worker' = [worker EXCEPT ![w] = "test"]
            /\ UNCHANGED mail
       ELSE \E hs \in HandshakePlans :
            LET r == connect(hs, mail) IN
            /\ mail' = r.mail
            /\ IF r.ret = "OSError"
               THEN worker' = [worker EXCEPT ![w] = "dead"] /\ UNCHANGED status_indicator
               ELSE /\ worker' = [worker EXCEPT ![w] = "test"]
                    /\ status_indicator' = IndicatorColour(r)
    /\ UNCHANGED runVars
    /\ UNCHANGED <<stop_flag, email_watcher, email_watcher_thread, ui, callback_error,
                   slept, message_box, app>>

\* refresh_emails_and_jobs (the Refresh button): with a watcher, run() is
\* called without its argument, the TypeError is caught and the error box is
\* shown; without a watcher the other error box is shown.
refresh_emails_and_jobs ==
    /\ app = "running"
    /\ ui = "idle"
    /\ message_box' = IF email_watcher # "None" THEN "Failed to refresh emails"
                      ELSE "Email watcher not configured"
    /\ callback_error' = "none"
    /\ UNCHANGED runVars
    /\ UNCHANGED <<mail, stop_flag, email_watcher, email_watcher_thread, worker, ui,
                   status_indicator, slept, app>>

WorkerStep == \E w \in Workers : WorkerTest(w) \/ WorkerCallRun(w) \/ WorkerSleep(w) \/ WorkerFinally(w)

NextPoller ==
    \/ start_email_watcher
    \/ \E w \in Workers : WorkerTest(w)
    \/ \E w \in Workers : WorkerCallRun(w)
    \/ \E w \in Workers : WorkerSleep(w)
    \/ \E w \in Workers : WorkerFinally(w)
    \/ refresh_emails_and_jobs

SpecPoller == Init /\ [][NextPoller]_vars

\* The worker is a thread of its own: the scheduler runs it, and time.sleep
\* returns.
SpecPollerFair == Init /\ [][NextPoller]_vars /\ WF_vars(WorkerStep)

\* -------------------------------------------------------- update_config
\* update_config(new_config) once __init__ is through (there is a watcher),
\* up to the join of stop_email_watcher: "if watcher and thread and
\* thread.is_alive(): stop_flag = True; thread.join(timeout=5)". The number
\* of threads ever started is capped by MaxWorkers.
update_config ==
    /\ app = "running"
    /\ ui = "idle"
    /\ email_watcher # "None"
    /\ Cardinality(Started) < MaxWorkers
    /\ stop_flag' = IF email_watcher_thread # NoThread /\ WorkerAlive(email_watcher_thread)
                    THEN TRUE ELSE stop_flag
    /\ ui' = "join"
    /\ UNCHANGED runVars
    /\ UNCHANGED <<mail, email_watcher, email_watcher_thread, worker, callback_error,
                   status_indicator, slept, message_box, app>>

\* stop_email_watcher from the return of join on: join(timeout=5) returns
\* when the thread has ended or when 5 s have passed, whichever is first (the
\* worker sleeps 60 s at a time); then email_watcher = None and
\* email_watcher_thread = None, whatever the thread does.
stop_email_watcher ==
    /\ app = "running"
    /\ ui = "join"
    /\ email_watcher' = "None"
    /\ email_watcher_thread' = NoThread
    /\ ui' = "start"
    /\ UNCHANGED runVars
    /\ UNCHANGED <<mail, stop_flag, worker, callback_error, status_indicator, slept,
                   message_box, app>>

\* the end of update_config, after start_email_watcher returned:
\* update_status_indicator() (one more connect()) and update_sync_time()
\* (which reads last_checked.json and sets a label)
update_config_indicator ==
    /\ app = "running"
    /\ ui = "indicator"
    /\ \E hs \in HandshakePlans :
          LET r == connect(hs, mail) IN
          /\ mail' = r.mail
          /\ IF r.ret = "OSError"
             THEN callback_error' = "OSError" /\ UNCHANGED status_indicator
             ELSE callback_error' = "none" /\ status_indicator' = IndicatorColour(r)
    /\ ui' = "idle"
    /\ UNCHANGED runVars
    /\ UNCHANGED <<stop_flag, email_watcher, email_watcher_thread, worker, slept,
                   message_box, app>>

NextRestart ==
    \/ start_email_watcher
    \/ \E w \in Workers : WorkerTest(w)
    \/ \E w \in Workers : WorkerCallRun(w)
    \/ \E w \in Workers : WorkerSleep(w)
    \/ \E w \in Workers : WorkerFinally(w)
    \/ refresh_emails_and_jobs
    \/ update_config
    \/ stop_email_watcher
    \/ update_config_indicator

\* the mailbox plays no part here: it is empty
InitRestart == InitWith(Mailboxes(0))

SpecRestart == InitRestart /\ [][NextRestart]_vars

\* ------------------------------------------ the application as a whole
\* delete_job(job_id), the user confirming: SELECT email_hash of the row (a
\* column update_database never writes: NULL), DELETE, commit, remove the
\* row from the UI; then, with a watcher,
\* self.email_watcher.remove_processed_hash(email_hash): EmailWatcher has no
\* such method, the AttributeError leaves delete_job (conn.close() and the
\* logging line are not reached).
delete_job ==
    /\ app = "running"
    /\ ui = "idle"
    /\ \E r \in jobs : jobs' = jobs \ {r}
    /\ callback_error' = IF email_watcher # "None" THEN "AttributeError" ELSE "none"
    /\ UNCHANGED <<mailbox, nextId, last_checked_file, now, mail, stop_flag, pc, lc, todo,
                   cur, job_data, existing_job, tries, cycles, conn_log, outcome, cycle,
                   email_watcher, email_watcher_thread, worker, ui, status_indicator,
                   slept, message_box, app, parseVars>>

\* a thread calls run(d) on the watcher HomeScreen holds; n bounds its cycles
RunOnWatcher(t, n) ==
    /\ app = "running"
    /\ email_watcher # "None"
    /\ RunCall(t, n)

NextApp ==
    \/ start_email_watcher
    \/ \E w \in Workers : WorkerTest(w)
    \/ \E w \in Workers : WorkerCallRun(w)
    \/ \E w \in Workers : WorkerSleep(w)
    \/ \E w \in Workers : WorkerFinally(w)
    \/ delete_job
    \/ RunOnWatcher("t1", AppCycles)
    \/ Connect("t1")
    \/ ListSince("t1")
    \/ FetchNext("t1")
    \/ ProcessEmail("t1")
    \/ DbSelect("t1")
    \/ DbWrite("t1")
    \/ DbError("t1")
    \/ Finally("t1")

SpecApp == InitConc /\ [][NextApp]_vars

\* ------------------------------------------------- a stop during a cycle
\* start_email_watcher as __init__ calls it
InitialStart == ui = "idle" /\ start_email_watcher

\* mailboxes of two messages about one application
StopMailboxes ==
    { box \in [1..2 -> { m \in Messages : m.company = "Acme" /\ m.position = "Backend" }] :
        box[1] # box[2] }

InitStop == InitWith(StopMailboxes)

\* HomeScreen up to the point where update_config has stopped the watcher
\* (its start_email_watcher has not begun yet: the watcher a thread is
\* inside run of is the one that was stopped), beside a thread that runs
\* run(d) on HomeScreen's watcher.
NextStop ==
    \/ InitialStart
    \/ \E w \in Workers : WorkerTest(w)
    \/ \E w \in Workers : WorkerCallRun(w)
    \/ \E w \in Workers : WorkerSleep(w)
    \/ \E w \in Workers : WorkerFinally(w)
    \/ update_config
    \/ stop_email_watcher
    \/ RunOnWatcher("t1", ConcCycles)
    \/ Connect("t1")
    \/ ListSince("t1")
    \/ FetchNext("t1")
    \/ ProcessEmail("t1")
    \/ DbSelect("t1")
    \/ DbWrite("t1")
    \/ DbError("t1")
    \/ Finally("t1")

SpecStop == InitStop /\ [][NextStop]_vars

\* ----------------------------------------------------- parse_email alone
ParseEmail ==
    /\ email_data = NotParsed
    /\ email_message # NoMessage
    /\ email_data' = parse_email(email_message)
    /\ UNCHANGED <<mailbox, jobs, nextId, last_checked_file, now, mail, stop_flag, pc, lc,
                   todo, cur, job_data, existing_job, tries, cycles, conn_log, outcome,
                   cycle, email_watcher, email_watcher_thread, worker, ui, callback_error,
                   status_indicator, slept, message_box, app, email_message>>

InitParse ==
    /\ InitRun(Mailboxes(0))
    /\ email_message \in EmailMessages
    /\ email_data = NotParsed

SpecParse == InitParse /\ [][ParseEmail]_vars

\* ================================================================ claims
KeyCount(tbl, c, p) == Cardinality({ r \in tbl : r.company = c /\ r.position = p })
Keys == { <<m.company, m.position>> : m \in { x \in Messages : x.job } }
RowKeys(tbl) == { <<r.id, r.company, r.position>> : r \in tbl }
\* the thread is between two cycles, the second with the checkpoint of the first
TwoCyclesDone(t) ==
    /\ pc[t] = "idle"
    /\ cycle[t].prev # {}
    /\ \A p \in cycle[t].prev : p.lc = cycle[t].lc
\* both cycles ran to the end of the list and nothing failed in either
BothClean(t) ==
    /\ cycle[t].clean /\ cycle[t].complete
    /\ \A p \in cycle[t].prev : p.clean

\* C1: a second cycle over the unchanged mailbox with the unchanged checkpoint
\* creates no duplicate: every row of the first cycle is still there, a key
\* has the number of rows it had (or one, where it had none because the first
\* cycle failed on its message), and when nothing failed in either cycle the
\* rows (id, company, position) after the second are those after the first.
C1_SecondCycleNoDuplicate ==
    \A t \in Threads : TwoCyclesDone(t) =>
        /\ RowKeys(cycle[t].at_start) \subseteq RowKeys(jobs)
        /\ \A k \in Keys :
              \/ KeyCount(jobs, k[1], k[2]) = KeyCount(cycle[t].at_start, k[1], k[2])
              \/ /\ KeyCount(cycle[t].at_start, k[1], k[2]) = 0
                 /\ KeyCount(jobs, k[1], k[2]) = 1
        /\ BothClean(t) => RowKeys(jobs) = RowKeys(cycle[t].at_start)

\* C1 witness: two clean cycles with one checkpoint were run, the first
\* created a row and the second merged the same message into it again.
C1_Witness ==
    \E t \in Threads :
        /\ TwoCyclesDone(t) /\ BothClean(t)
        /\ cycle[t].at_start # {}
        /\ \E r \in jobs : ~r.notes.null /\ Len(r.notes.s) >= 3

\* C3: when no row has the verdict's (company, position), the write of
\* update_database adds exactly one row, with company, position and status of
\* the verdict, application_date = last_updated = its date and notes = its
\* note, and changes no other row.
C3_InsertPath ==
    [][ \A t \in Threads :
          ( /\ pc[t] = "db_write" /\ pc'[t] = "loop"
            /\ KeyCount(jobs, job_data[t].company, job_data[t].position) = 0 )
          => \E r \in jobs' :
                /\ r \notin jobs
                /\ jobs' = jobs \cup {r}
                /\ \A o \in jobs : o.id # r.id
                /\ r.company = job_data[t].company
                /\ r.position = job_data[t].position
                /\ r.status = job_data[t].status
                /\ r.application_date = job_data[t].date
                /\ r.last_updated = job_data[t].date
                /\ r.notes = job_data[t].notes ]_vars

\* C3 witness: a row was inserted next to a row of another key.
C3_Witness ==
    /\ Cardinality(jobs) = 2
    /\ \E t \in Threads : pc[t] = "loop" /\ outcome[t] = "merged"

\* C4: from the empty store, under the cycles of one pipeline, no
\* (company, position) ever has more than one row.
C4_OneRowPerKey ==
    \A k \in Keys : KeyCount(jobs, k[1], k[2]) <= 1

\* C4 witness: a second verdict for a key was merged into the key's row.
C4_Witness ==
    \E r \in jobs :
        /\ KeyCount(jobs, r.company, r.position) = 1
        /\ ~r.notes.null /\ Len(r.notes.s) >= 3
        /\ r.status = "Interview"

\* C6 (as claimed): after a cycle that connected and ran to the end of the
\* list, last_checked.json holds the time that cycle started.
C6_CheckpointIsCycleStart ==
    \A t \in Threads :
        (pc[t] = "idle" /\ cycles[t] > 0 /\ cycle[t].complete)
        => last_checked_file = cycle[t].start

PerMessageFailures ==
    {"fetch_error", "decode_error", "json_error", "classifier_shape_error",
     "classifier_exception"}

\* C8 (as claimed): a step in which the fetch, the decoding or the
\* classification of a message fails goes on with the loop, so that the
\* messages listed after it are still processed in the cycle.
C8_FailureSkipsOnlyOne ==
    [][ \A t \in Threads :
          ( /\ pc[t] \in {"loop", "process"}
            /\ todo[t] # <<>>
            /\ outcome'[t] \in PerMessageFailures
            /\ <<pc[t], todo[t], outcome[t]>> # <<pc'[t], todo'[t], outcome'[t]>> )
          => pc'[t] = "loop" ]_vars

\* C9 (as claimed): connect() reports a failure only after 3 handshakes, and
\* a first handshake that fails followed by one that succeeds is a success.
C9_ConnectRetries ==
    \A t \in Threads :
        conn_log[t].ret # "none" =>
            /\ conn_log[t].ret # "True" => conn_log[t].attempts = max_connect_tries
            /\ (conn_log[t].plan[1] # "ok" /\ conn_log[t].plan[2] = "ok")
                  => conn_log[t].ret = "True"

\* C2: the write of update_database on an existing row of the verdict's
\* (company, position) leaves the row with the verdict's status, its date as
\* last_updated and notes = old notes, '\n\n', the verdict's note (both being
\* texts); the mark updated becomes 1 when the status differs and is left as
\* it was when the status is the same; nothing else changes.
C2_MergePath ==
    [][ \A t \in Threads :
          (pc[t] = "db_write" /\ pc'[t] = "loop" /\ existing_job[t] # {})
          => \A e \in existing_job[t] :
             \E old \in jobs : \E new \in jobs' :
                /\ old.id = e.id /\ new.id = e.id
                /\ Matches(old, job_data[t])
                /\ jobs' \ {new} = jobs \ {old}
                /\ new.status = job_data[t].status
                /\ new.last_updated = job_data[t].date
                /\ (~old.notes.null /\ ~job_data[t].notes.null)
                      => new.notes = Text(old.notes.s \o <<"\n\n">> \o job_data[t].notes.s)
                /\ job_data[t].status # old.status => new.updated = 1
                /\ job_data[t].status = old.status => new.updated = old.updated
                /\ new.company = old.company /\ new.position = old.position
                /\ new.application_date = old.application_date ]_vars

\* C2 witness: a verdict of the same status was merged into a row that was
\* not marked: its notes grew, the mark is still off.
C2_Witness ==
    \E t \in Threads : \E r \in jobs :
        /\ pc[t] = "loop" /\ outcome[t] = "merged"
        /\ Matches(r, job_data[t])
        /\ r.updated = UpdatedDefault
        /\ r.status = job_data[t].status
        /\ ~r.notes.null /\ Len(r.notes.s) >= 2

\* C5 (as claimed): when two runs have each merged a verdict for one
\* (company, position), the store holds one row for it.
C5_ConcurrentMergeOneRow ==
    \A t \in Threads : \A u \in Threads \ {t} :
        ( /\ outcome[t] = "merged" /\ outcome[u] = "merged"
          /\ job_data[t].company = job_data[u].company
          /\ job_data[t].position = job_data[u].position )
        => KeyCount(jobs, job_data[t].company, job_data[t].position) = 1

\* the (company, position) of the job-related messages of the mailbox that a
\* search since the persisted checkpoint lists
ListedJobKeys ==
    { <<mailbox[i].company, mailbox[i].position>> :
        i \in { j \in 1..Len(mailbox) :
                  mailbox[j].job /\ mailbox[j].decodable
                  /\ mailbox[j].arrived >= last_checked_file } }

\* C7 (as claimed): while the worker runs, the job-related messages that are
\* in the mailbox since the checkpoint are eventually merged into the store.
C7_ListedMessageEventuallyMerged ==
    []((\E w \in Workers : WorkerAlive(w)) =>
         <>( \/ ~(\E w \in Workers : WorkerAlive(w))
             \/ \A k \in ListedJobKeys : KeyCount(jobs, k[1], k[2]) >= 1 ))

\* C10 (as claimed): while no stop is requested, the worker thread, once
\* started, is never ended by a failure.
C10_WorkerSurvives ==
    \A w \in Workers :
        (app = "running" /\ worker[w] # "not_started" /\ ~stop_flag) => worker[w] # "dead"

\* C11 (as claimed): at most one worker thread of run_email_watcher is alive
\* at any time, also after update_config stopped the watcher and started a
\* new one.
C11_AtMostOneWorker ==
    Cardinality({ w \in Workers : WorkerAlive(w) }) <= 1

Retired(w) == WorkerAlive(w) /\ w # email_watcher_thread

\* C13 (as claimed): once stop_email_watcher has returned, the thread it
\* stopped enters no further turn of its loop, calls run no more and makes no
\* connect() to the mailbox.
C13_StoppedWorkerIsQuiet ==
    [][ \A w \in Workers : Retired(w) =>
          /\ ~(worker[w] = "test" /\ worker'[w] = "call")
          /\ ~(worker[w] = "call" /\ worker'[w] # "call")
          /\ ~(worker[w] = "finally" /\ worker'[w] # "finally" /\ email_watcher # "None") ]_vars

\* C14 (as claimed): delete_job on the record of an ingested message deletes
\* that one row and completes without error (so that a later cycle listing
\* the message can ingest it again).
C14_DeleteCompletes ==
    [][ (jobs' # jobs /\ jobs' \subseteq jobs)
        => /\ Cardinality(jobs') = Cardinality(jobs) - 1
           /\ callback_error' = "none" ]_vars

\* the thread is in a cycle that lists what its previous cycle listed (same
\* checkpoint), and the previous cycle ran to the end with no failure: every
\* message listed now was ingested then
Relisting(t) ==
    /\ pc[t] # "idle"
    /\ cycle[t].prev # {}
    /\ \A p \in cycle[t].prev : p.lc = cycle[t].lc /\ p.clean

\* C15 (as claimed): a message ingested in an earlier cycle and listed again
\* is skipped: no verdict of the classifier for it goes to update_database,
\* and the store is left as it is.
C15_RelistedSkipped ==
    [][ \A t \in Threads : Relisting(t) => (pc'[t] # "db_select" /\ jobs' = jobs) ]_vars

\* C16 (as claimed): for a response that is not JSON, what interpret_email
\* returns and what process_email then logs differ from what they are for a
\* well-formed response with job_related = false.
C16_MalformedDistinct ==
    \A t \in Threads : outcome[t] = "json_error" =>
        \A n \in { x \in Messages : ~x.job } :
            /\ interpret_result("bad_json", mailbox[cur[t]]) # interpret_result("ok", n)
            /\ process_email_log(interpret_result("bad_json", mailbox[cur[t]]))
                  # process_email_log(interpret_result("ok", n))

\* C17 (as claimed): a cycle whose connect() fails (returns False or raises)
\* has processed no message and moved no checkpoint when run is left, and
\* the way run is left makes run_email_watcher sleep the recovery interval
\* (60 s), not the normal one.
C17_ConnectFailureRecovery ==
    [][ \A t \in Threads :
          ( /\ pc[t] = "finally" /\ pc'[t] = "idle"
            /\ conn_log[t].ret \in {"False", "OSError"} )
          => /\ jobs' = cycle[t].at_start
             /\ last_checked_file' = last_checked_file
             /\ IntervalAfter(cycle'[t].result) = recovery_interval ]_vars

\* C18 (as claimed): a store failure that update_database lets through
\* leaves nothing of the verdict in the store, ends the cycle with no later
\* message merged and no checkpoint moved, and run reports the cycle to its
\* caller as failed (it raises).
C18_StoreFailureSurfaced ==
    [][ \A t \in Threads :
          /\ ( /\ pc[t] \in {"db_select", "db_write"}
               /\ pc'[t] = "finally" /\ outcome'[t] = "store_error" )
             => jobs' = jobs
          /\ ( /\ pc[t] = "finally" /\ pc'[t] = "idle"
               /\ outcome[t] = "store_error" )
             => /\ jobs' = jobs
                /\ last_checked_file' = last_checked_file
                /\ cycle'[t].result = "raised" ]_vars

\* C19 (as claimed): whenever no thread is inside run, the connection
\* self.mail refers to is not open.
C19_NoOpenConnectionWhenIdle ==
    (\A t \in Threads : pc[t] = "idle") => mail # "open"

\* C20 (as claimed): update_status_indicator, here in the finally clause of
\* the worker, leaves self.mail, the store and the checkpoint as they are,
\* also while another thread is inside run.
C20_StatusSurfaceReadOnly ==
    [][ (\E w \in Workers : worker[w] = "finally" /\ worker'[w] # "finally")
        => /\ mail' = mail
           /\ jobs' = jobs
           /\ last_checked_file' = last_checked_file ]_vars

\* the places of the text/plain parts among the parts of the message
PlainAt(m) == { i \in 1..Len(m.parts) : m.parts[i].ctype = "text/plain" }

\* C21: parse_email on a multipart message whose headers parse returns a
\* record, not None; its body is empty when no part is text/plain, and is
\* the decoded payload of the first text/plain part otherwise.
C21_MultipartBody ==
    (email_data # NotParsed /\ email_message.multipart /\ email_message.date_ok) =>
        /\ email_data.ret = "dict"
        /\ PlainAt(email_message) = {} => email_data.body = ""
        /\ \A i \in PlainAt(email_message) :
              (\A j \in PlainAt(email_message) : i <= j)
              => email_data.body = IF email_message.parts[i].decodes
                                   THEN email_message.parts[i].text ELSE ""

\* C21 witness: a multipart message with an HTML part and no text/plain part
\* was parsed into a record with an empty body.
C21_Witness ==
    /\ email_message.multipart /\ email_message.date_ok
    /\ PlainAt(email_message) = {}
    /\ \E i \in 1..Len(email_message.parts) : email_message.parts[i].ctype = "text/html"
    /\ email_data = [ret |-> "dict", body |-> ""]

\* C22: no step of the pipeline changes the application_date of a row that
\* exists: a row of the same id has afterwards the application_date it had.
C22_ApplicationDateImmutable ==
    [][ \A old \in jobs : \A new \in jobs' :
          new.id = old.id => new.application_date = old.application_date ]_vars

\* C22 witness: a verdict with another status and another date was merged
\* into a row: status and last_updated are the verdict's, application_date
\* is still the date of the verdict that created the row.
C22_Witness ==
    \E t \in Threads : \E r \in jobs :
        /\ pc[t] = "loop" /\ outcome[t] = "merged"
        /\ r.id = 1 /\ Matches(r, job_data[t])
        /\ r.status = "Interview" /\ job_data[t].status = "Interview"
        /\ r.last_updated = job_data[t].date
        /\ r.application_date # job_data[t].date

\* the text of a notes value, NULL counting as no text
AsText(v) == IF v.null THEN <<>> ELSE v.s
IsPrefix(a, b) == Len(a) <= Len(b) /\ SubSeq(b, 1, Len(a)) = a
IsSuffix(a, b) == Len(a) <= Len(b) /\ SubSeq(b, Len(b) - Len(a) + 1, Len(b)) = a

\* C23 (as claimed): in every step of the pipeline the notes a row had are a
\* prefix of the notes it has afterwards, and after a merge the notes of the
\* row end with the note of the verdict merged (an absent note being no
\* text).
C23_NotesAppendOnly ==
    [][ /\ \A old \in jobs : \A new \in jobs' :
              new.id = old.id => IsPrefix(AsText(old.notes), AsText(new.notes))
        /\ \A t \in Threads : (pc[t] = "db_write" /\ pc'[t] = "loop") =>
              \A e \in existing_job[t] : \A new \in jobs' :
                  new.id = e.id => IsSuffix(AsText(job_data[t].notes), AsText(new.notes)) ]_vars

\* C24 (as claimed): no step of the pipeline moves the last_updated of a row
\* back: a row of the same id has afterwards a last_updated that is not
\* earlier than the one it had.
C24_LastUpdatedAdvances ==
    [][ \A old \in jobs : \A new \in jobs' :
          new.id = old.id => new.last_updated >= old.last_updated ]_vars

\* C25: with stop_flag set, the loop of run hands no further message to
\* process_email (a message already in process_email is finished), and when
\* run is left self.mail has been logged out.
C25_StopBetweenMessages ==
    [][ \A t \in Threads : stop_flag =>
          /\ (pc[t] = "loop" => pc'[t] # "process")
          /\ (pc[t] = "finally" /\ pc'[t] = "idle") => mail' = "closed" ]_vars

\* C25 witness: the first message was merged, the stop came, the second
\* message was fetched and not processed, and run has returned with the
\* connection logged out.
C25_Witness ==
    \E t \in Threads :
        /\ stop_flag
        /\ pc[t] = "idle" /\ outcome[t] = "stopped" /\ cycle[t].result = "returned"
        /\ Cardinality(jobs) = 1
        /\ mail = "closed"

\* C26: update_database is called at most 3 times for one verdict; a call
\* that fails leaves the store as it was and its connection closed (the
\* next call, or the end of the cycle, follows); and the call that succeeds
\* after failed ones inserts one row with the verdict's note, or appends the
\* note once to the notes of the one row it merges into.
C26_RetriesMergeOnce ==
    [][ \A t \in Threads :
          /\ tries'[t] <= max_db_tries
          /\ ( /\ pc[t] \in {"db_select", "db_write"}
               /\ pc'[t] \in {"db_select", "finally"} )
             => jobs' = jobs
          /\ ( /\ pc[t] = "db_write" /\ pc'[t] = "loop" /\ tries[t] > 1 )
             => /\ Cardinality(jobs') <= Cardinality(jobs) + 1
                /\ existing_job[t] = {} =>
                      \E r \in jobs' : /\ jobs' = jobs \cup {r} /\ r \notin jobs
                                       /\ r.notes = job_data[t].notes
                /\ \A e \in existing_job[t] : \A old \in jobs : \A new \in jobs' :
                      (old.id = e.id /\ new.id = e.id) =>
                         /\ jobs' \ {new} = jobs \ {old}
                         /\ new.notes = SqlConcat(SqlConcat(old.notes, Separator),
                                                  job_data[t].notes) ]_vars

\* C26 witness: the third call of update_database for a verdict succeeded
\* after two that failed: the verdict's note stands once at the end of the
\* notes of its row.
C26_Witness ==
    \E t \in Threads : \E r \in jobs :
        /\ pc[t] = "loop" /\ outcome[t] = "merged" /\ tries[t] = max_db_tries
        /\ Matches(r, job_data[t])
        /\ r.notes = Text(<<"n1", "\n\n", "n2">>)
        /\ job_data[t].notes = Text(<<"n2">>)

====
